---- MODULE Spec2Model ----
(***************************************************************************)
(* The query facade of the eCFR analyzer: supabaseHandler (library) and    *)
(* POST (server route), the two store adapters getMetricTotalForPairs and  *)
(* getMetricTotalForTitle, and the agency registry they read.              *)
(*                                                                         *)
(* Dates are modelled by their year (ISO date strings compare as their     *)
(* years do).  A JavaScript value that is a number, null or undefined is a *)
(* record [n, d]: n/d is the number when d > 0, d = 0 is null (n = 0) or   *)
(* undefined (n = 1).  A Map or Set is the sequence of its entries in      *)
(* insertion order.                                                        *)
(***************************************************************************)
EXTENDS Integers, Sequences, FiniteSets, TLC

\* ------------------------------------------------------------------ bounds

\* The largest number of groups one request selects.
MaxItems == 2

\* The largest number of rows one store response holds.
MaxRows == 2

\* The largest number of section records behind one row of a store response
\* (only in the record-level specification).
MaxRecs == 2

\* The largest cap a MultiSelect is mounted with.
MaxCap == 3

\* The largest number of sections of one title at one snapshot date.
MaxSections == 2

\* The largest number of times one (title, snapshot date) is ingested.
MaxRuns == 2

\* The largest number of requests the page starts.
MaxRequests == 2

\* The largest number of requests pending when handleVisualize is called
\* as a function.
MaxPending == 1

\* The snapshot dates and the metric values the store may hold.
Dates == {2018, 2019}
Vals == {0, 1}

Metrics == {"word_count", "mandate_count", "readability_score"}

\* ------------------------------------------------------------------ values

Num(x) == [n |-> x, d |-> 1]
Null == [n |-> 0, d |-> 0]
Undefined == [n |-> 1, d |-> 0]

\* typeof v === 'number'
IsNumber(v) == v.d > 0

RECURSIVE Gcd(_, _)
Gcd(a, b) == IF b = 0 THEN a ELSE Gcd(b, a % b)

Reduce(v) ==
    LET g == Gcd(v.n, v.d) IN
    IF g = 0 THEN v ELSE [n |-> v.n \div g, d |-> v.d \div g]

\* a + b on numbers
Add(a, b) == Reduce([n |-> a.n * b.d + b.n * a.d, d |-> a.d * b.d])

\* a / k for a count k > 0
Div(a, k) == Reduce([n |-> a.n, d |-> a.d * k])

\* a || b : b when a is 0, null or undefined
OrElse(a, b) == IF IsNumber(a) /\ a.n # 0 THEN a ELSE b

\* The comparator's order of the agency names (a.name.localeCompare(b.name)).
NameRank(name) ==
    CASE name = "E" -> 1
      [] name = "N" -> 2
      [] name = "X" -> 3
      [] name = "Y" -> 4
      [] OTHER -> 5

\* ---------------------------------------------------------------- registry

NoChapter == "undefined"

Ref(t, c) == [title |-> t, chapter |-> c]

\* agencies.json as shipped: E has no reference, N only references without
\* a chapter, X two references with a chapter, Y one of each kind.
agenciesData ==
    << [name |-> "Y", cfr_references |-> << Ref(1, NoChapter), Ref(2, "II") >>],
       [name |-> "E", cfr_references |-> << >>],
       [name |-> "X", cfr_references |-> << Ref(1, "I"), Ref(2, "II") >>],
       [name |-> "N", cfr_references |-> << Ref(3, NoChapter) >>] >>

\* The names a request may select: the registry's.
AgencyNames == {"E", "N", "X", "Y"}

\* The ids of titles.json a request may select.
TitleIds == {"1", "2", "3"}

\* maxSelections = 3
DefaultMaxSelections == 3

\* Array.prototype.sort with a comparator that compares ranks: a stable
\* insertion sort.  `order` is the sorted sequence of indices into `rank`.
RECURSIVE InsertSorted(_, _, _)
InsertSorted(order, k, rank) ==
    IF order = << >> THEN << k >>
    ELSE IF rank[order[Len(order)]] <= rank[k] THEN Append(order, k)
    ELSE Append(InsertSorted(SubSeq(order, 1, Len(order) - 1), k, rank),
                order[Len(order)])

RECURSIVE SortedOrder(_, _)
SortedOrder(len, rank) ==
    IF len = 0 THEN << >>
    ELSE InsertSorted(SortedOrder(len - 1, rank), len, rank)

SortBy(s, rank) ==
    LET order == SortedOrder(Len(s), rank) IN
    [k \in 1..Len(s) |-> s[order[k]]]

\* .sort((a, b) => a.name.localeCompare(b.name))
SortByName(s) == SortBy(s, [k \in 1..Len(s) |-> NameRank(s[k].name)])

\* .sort((a, b) => a.date.localeCompare(b.date))
\* SortByDate that leaves the rows in insertion order.
SortByDateUnsorted(s) == s

SortByDate(s) == SortBy(s, [k \in 1..Len(s) |-> s[k].date])

\* const agencies = [...agenciesData.agencies].sort(by name)
SortedAgencies == SortByName(agenciesData)

\* agencies.find(a => a.name === agencyName): the index, 0 when there is none
FindAgency(reg, agencyName) ==
    LET idx == {k \in 1..Len(reg) : reg[k].name = agencyName} IN
    IF idx = {} THEN 0 ELSE CHOOSE k \in idx : \A j \in idx : k <= j

\* FilterRefs with a filter that lets every reference through.
FilterRefsKeepsAll(refs) == refs

\* cfr_references.filter(ref => ref.chapter !== undefined)
RECURSIVE FilterRefs(_)
FilterRefs(refs) ==
    IF refs = << >> THEN << >>
    ELSE LET rest == FilterRefs(Tail(refs)) IN
         IF Head(refs).chapter # NoChapter THEN << Head(refs) >> \o rest ELSE rest

\* ------------------------------------------------------------ store adapters

\* A DataPoint { date, [key]: value }: its date and its other properties.
DataPoint(date, cols) == [date |-> date, cols |-> cols]

\* dataPoint[key] = value
SetCol(dp, key, value) ==
    [dp EXCEPT !.cols = [k \in DOMAIN dp.cols \cup {key} |->
                            IF k = key THEN value ELSE dp.cols[k]]]

\* The index of the entry of `map` for `date`, 0 when it has none.
IndexOfDate(map, date) ==
    LET idx == {k \in 1..Len(map) : map[k].date = date} IN
    IF idx = {} THEN 0 ELSE CHOOSE k \in idx : TRUE

\* The forEach over the rows of a response: one DataPoint per date, holding
\* the row's total under `key`.
RECURSIVE RowsByDate(_, _, _)
RowsByDate(rows, key, dataByDate) ==
    IF rows = << >> THEN dataByDate
    ELSE LET row == Head(rows)
             at == IndexOfDate(dataByDate, row.target_date)
             map == IF at = 0
                    THEN Append(dataByDate, DataPoint(row.target_date, << >>))
                    ELSE dataByDate
             k == IndexOfDate(map, row.target_date)
         IN RowsByDate(Tail(rows), key,
                       [map EXCEPT ![k] = SetCol(map[k], key, row.total_metric)])

\* The adapter's answer: the points it returns, or the exception it throws.
Returned(points) == [threw |-> FALSE, points |-> points]
Thrown == [threw |-> TRUE, points |-> << >>]

\* AdapterResult without the check of `error`.
AdapterResultUnchecked(resp, key) ==
    IF ~resp.hasData THEN Thrown
    ELSE Returned(SortByDate(RowsByDate(resp.data, key, << >>)))

\* The body shared by the two adapters, from the destructured { data, error }.
AdapterResult(resp, key) ==
    IF resp.error THEN Returned(<< >>)
    ELSE IF ~resp.hasData THEN Thrown
    ELSE Returned(SortByDate(RowsByDate(resp.data, key, << >>)))

getMetricTotalForPairs(titles, chapters, metric, resp) ==
    AdapterResult(resp, titles[1] \o "-" \o chapters[1])

getMetricTotalForTitle(title, metric, resp) ==
    AdapterResult(resp, title)

\* ------------------------------------------------------------------ facade

\* Object.values(dataPoint).find(v => typeof v === 'number')
FirstNumber(dp) ==
    LET nums == {k \in DOMAIN dp.cols : IsNumber(dp.cols[k])} IN
    IF nums = {} THEN Undefined ELSE dp.cols[CHOOSE k \in nums : TRUE]

\* All the points of a list of series, in the order forEach visits them.
RECURSIVE Flatten(_)
Flatten(series) ==
    IF series = << >> THEN << >> ELSE Head(series) \o Flatten(Tail(series))

\* pairResults.forEach(pairData => pairData.forEach(...)): per date, the
\* running total and the number of points added to it.
RECURSIVE CombinePairs(_, _)
CombinePairs(points, agencyDataByDate) ==
    IF points = << >> THEN agencyDataByDate
    ELSE LET dataPoint == Head(points)
             value == OrElse(FirstNumber(dataPoint), Num(0))
             map == IF IndexOfDate(agencyDataByDate, dataPoint.date) = 0
                    THEN Append(agencyDataByDate,
                                [date |-> dataPoint.date, total |-> Num(0), count |-> 0])
                    ELSE agencyDataByDate
             k == IndexOfDate(map, dataPoint.date)
         IN CombinePairs(Tail(points),
                         [map EXCEPT ![k].total = Add(@, value), ![k].count = @ + 1])

\* AgencyValue that averages every metric.
AgencyValueMeanAlways(metric, total, count) ==
    IF count > 0 THEN Div(total, count) ELSE Null

\* AgencyValue that sums every metric.
AgencyValueSumAlways(metric, total, count) == total

\* The value of one agency at one date: the average for readability, the sum
\* for the other metrics.
AgencyValue(metric, total, count) ==
    IF metric = "readability_score"
    THEN (IF count > 0 THEN Div(total, count) ELSE Null)
    ELSE total

\* AgencySeries that divides by the number of references read.
AgencySeriesOverAllRefs(agencyName, metric, pairs) ==
    LET byDate == CombinePairs(Flatten(pairs), << >>) IN
    [k \in 1..Len(byDate) |->
        DataPoint(byDate[k].date,
                  (agencyName :> AgencyValue(metric, byDate[k].total, Len(pairs))))]

\* Array.from(agencyDataByDate.entries()).map(...): the series of one agency.
AgencySeries(agencyName, metric, pairs) ==
    LET byDate == CombinePairs(Flatten(pairs), << >>) IN
    [k \in 1..Len(byDate) |->
        DataPoint(byDate[k].date,
                  (agencyName :> AgencyValue(metric, byDate[k].total, byDate[k].count)))]

\* AllDates that adds a date every time it meets it.
RECURSIVE AllDatesRepeated(_, _)
AllDatesRepeated(points, allDates) ==
    IF points = << >> THEN allDates
    ELSE AllDatesRepeated(Tail(points), Append(allDates, Head(points).date))

\* allDates: the dates of all the series, each once, in insertion order.
RECURSIVE AllDates(_, _)
AllDates(points, allDates) ==
    IF points = << >> THEN allDates
    ELSE AllDates(Tail(points),
                  IF \E k \in 1..Len(allDates) : allDates[k] = Head(points).date
                  THEN allDates ELSE Append(allDates, Head(points).date))

\* NullRows that starts every cell at 0.
NullRowsZero(allDates, selectedItems) ==
    [k \in 1..Len(allDates) |->
        DataPoint(allDates[k],
                  [item \in {selectedItems[j] : j \in 1..Len(selectedItems)} |-> Num(0)])]

\* allDates.forEach(date => ...): one row per date, null for every item.
NullRows(allDates, selectedItems) ==
    [k \in 1..Len(allDates) |->
        DataPoint(allDates[k],
                  [item \in {selectedItems[j] : j \in 1..Len(selectedItems)} |-> Null])]

\* Agency query: every property of a point but 'date' is copied to its row.
RECURSIVE FillAgencies(_, _)
FillAgencies(points, finalDataByDate) ==
    IF points = << >> THEN finalDataByDate
    ELSE LET dataPoint == Head(points)
             k == IndexOfDate(finalDataByDate, dataPoint.date)
             row == [finalDataByDate[k] EXCEPT !.cols =
                        [key \in DOMAIN @ \cup DOMAIN dataPoint.cols |->
                            IF key \in DOMAIN dataPoint.cols
                            THEN dataPoint.cols[key] ELSE @[key]]]
         IN FillAgencies(Tail(points), [finalDataByDate EXCEPT ![k] = row])

MergeAgencies(selectedItems, agencyResults) ==
    LET points == Flatten(agencyResults) IN
    SortByDate(FillAgencies(points,
                            NullRows(AllDates(points, << >>), selectedItems)))

\* Title query: the first number of a point, or null, is stored under the
\* title of the point's series.
RECURSIVE FillTitle(_, _, _)
FillTitle(points, title, finalDataByDate) ==
    IF points = << >> THEN finalDataByDate
    ELSE LET dataPoint == Head(points)
             value == OrElse(FirstNumber(dataPoint), Null)
             k == IndexOfDate(finalDataByDate, dataPoint.date)
         IN FillTitle(Tail(points), title,
                      [finalDataByDate EXCEPT ![k] = SetCol(@, title, value)])

RECURSIVE FillTitles(_, _, _, _)
FillTitles(titleResults, selectedItems, index, finalDataByDate) ==
    IF index > Len(titleResults) THEN finalDataByDate
    ELSE FillTitles(titleResults, selectedItems, index + 1,
                    FillTitle(titleResults[index], selectedItems[index], finalDataByDate))

MergeTitles(selectedItems, titleResults) ==
    SortByDate(FillTitles(titleResults, selectedItems, 1,
                          NullRows(AllDates(Flatten(titleResults), << >>), selectedItems)))

\* ------------------------------------------------------------------- store

\* The section records behind one row, as the sorted list of their values.
RecordLists(most) ==
    {recs \in UNION {[1..k -> Vals] : k \in 1..most} :
        \A j \in 1..(Len(recs) - 1) : recs[j] <= recs[j + 1]}

RECURSIVE SumOf(_)
SumOf(recs) == IF recs = << >> THEN 0 ELSE Head(recs) + SumOf(Tail(recs))

\* The total the remote procedure reports for the records matching one
\* selector at one date: their sum, or their mean for readability.
RpcTotal(metric, recs) ==
    IF metric = "readability_score"
    THEN Div(Num(SumOf(recs)), Len(recs))
    ELSE Num(SumOf(recs))

\* A YearMetric row; `records` is what the store aggregated, which the
\* caller never sees.
YearMetric(date, metric, recs) ==
    [target_date |-> date, total_metric |-> RpcTotal(metric, recs), records |-> recs]

YearMetrics(metric, most) ==
    {YearMetric(date, metric, recs) : date \in Dates, recs \in RecordLists(most)}

\* The { data, error } a call of supabase.rpc resolves to: an error without
\* data, or the rows in any order.
RpcError == [error |-> TRUE, hasData |-> FALSE, data |-> << >>]
RpcData(rows) == [error |-> FALSE, hasData |-> TRUE, data |-> rows]

RpcResponses(metric, most) ==
    {RpcError} \cup
    {RpcData(rows) : rows \in UNION {[1..k -> YearMetrics(metric, most)] : k \in 0..MaxRows}}

\* What a response says about one date: its last row for the date, if any.
NoRow == [total_metric |-> Null, records |-> << >>]

LastRowAt(resp, date) ==
    LET idx == {k \in 1..Len(resp.data) : resp.data[k].target_date = date} IN
    IF idx = {} THEN NoRow
    ELSE LET last == CHOOSE k \in idx : \A j \in idx : j <= k IN
         [total_metric |-> resp.data[last].total_metric,
          records |-> resp.data[last].records]

\* ------------------------------------------------------------------- state

VARIABLES
    agencies,        \* the registry, sorted at load
    maxRecs,         \* the most records the store holds per selector and date
    maxItems,        \* the most groups a request selects
    entry,           \* "handler": supabaseHandler called; "POST": the route
    bodyOk,          \* POST: request.json() parsed the body
    queryBy, selectedItems, selectedMetric,
    pc,              \* where the request stands
    i,               \* the for-of position in selectedItems
    validRefs,       \* the current agency's references with a chapter
    r,               \* the for-of position in validRefs
    pairResults, agencyResults, titleResults,
    response,        \* what the request answered
    storeLog,        \* the store calls of the request and what each returned
    sidebarState,    \* the page: queryBy, selectedAgencies, selectedTitles, selectedMetric
    selectedOptions, \* the mounted MultiSelect's own list
    maxSelections,   \* the MultiSelect's cap
    variant,         \* "items": app-multi-select.tsx; "divs": its onClick version
    lastEvent,       \* the last page event and whether it called onChange
    metricsStore,    \* the Metrics Store: its section metric records
    corpus,          \* the sections of each (title, snapshot date) at the source
    runs,            \* how often each (title, snapshot date) was ingested
    chartState,      \* the page: queryBy, metricName, data
    isLoading,       \* the page's loading flag
    error,           \* the page's error message, NoError for null
    wiring,          \* which supabaseHandler '@/lib/supabase' resolves to
    pending,         \* the fetchData calls awaiting supabaseHandler, oldest first
    started,         \* how many requests fetchData has started
    shown,           \* the id of the request that produced chartState.data
    lastSettled      \* the last request to settle, its outcome, the data before it

facade == << agencies, maxRecs, maxItems, entry, bodyOk, queryBy, selectedItems, selectedMetric,
             pc, i, validRefs, r, pairResults, agencyResults, titleResults,
             response, storeLog >>

page == << sidebarState, selectedOptions, maxSelections, variant, lastEvent >>

ingest == << metricsStore, corpus, runs >>

fetch == << chartState, isLoading, error, wiring, pending, started, shown, lastSettled >>

vars == << facade, page, ingest, fetch >>

NoResponse == [status |-> "none", body |-> << >>]
\* return table / NextResponse.json(table)
Table(rows) == [status |-> "ok", body |-> rows]
\* NextResponse.json({ error: 'Internal Server Error' }, { status: 500 })
ServerError == [status |-> "error", body |-> << >>]
\* the promise of supabaseHandler rejects
Rejected == [status |-> "threw", body |-> << >>]

\* NextResponse.json that leaves out the null properties too.
JsonDropsNull(rows) ==
    [k \in 1..Len(rows) |->
        DataPoint(rows[k].date,
                  [key \in {c \in DOMAIN rows[k].cols : IsNumber(rows[k].cols[c])} |->
                      rows[k].cols[key]])]

\* NextResponse.json(rows): the body is JSON.stringify(rows), which leaves out
\* the properties whose value is undefined and keeps numbers and null.
Json(rows) ==
    [k \in 1..Len(rows) |->
        DataPoint(rows[k].date,
                  [key \in {c \in DOMAIN rows[k].cols : rows[k].cols[c] # Undefined} |->
                      rows[k].cols[key]])]

\* What the request answers with its rows: the route a JSON body, the
\* handler the rows themselves.
Respond(rows) == IF entry = "POST" THEN Table(Json(rows)) ELSE Table(rows)

\* An exception leaves supabaseHandler, or reaches the catch of POST.
Raise == IF entry = "POST" THEN ServerError ELSE Rejected

\* The sequences of distinct elements of `set`, no longer than maxItems.
Selections(set) ==
    {sel \in UNION {[1..k -> set] : k \in 0..maxItems} :
        \A a, b \in 1..Len(sel) : a # b => sel[a] # sel[b]}

InitWith(mostRecs, mostItems) ==
    /\ agencies = SortedAgencies
    /\ maxRecs = mostRecs
    /\ maxItems = mostItems
    /\ entry = "handler"
    /\ bodyOk = TRUE
    /\ queryBy = ""
    /\ selectedItems = << >>
    /\ selectedMetric = ""
    /\ pc = "idle"
    /\ i = 1
    /\ validRefs = << >>
    /\ r = 1
    /\ pairResults = << >>
    /\ agencyResults = << >>
    /\ titleResults = << >>
    /\ response = NoResponse
    /\ storeLog = << >>

\* The page as first rendered, with a MultiSelect of the given cap mounted.
NoEvent == [op |-> "", value |-> "", had |-> 0, onChange |-> FALSE, tick |-> 0]

NoError == "null"
NoSettle == [id |-> 0, outcome |-> "none", before |-> << >>]

Home(cap, v, w) ==
    /\ sidebarState = [queryBy |-> "agency", selectedAgencies |-> << >>,
                       selectedTitles |-> << >>, selectedMetric |-> ""]
    /\ selectedOptions = << >>
    /\ maxSelections = cap
    /\ variant = v
    /\ lastEvent = NoEvent
    /\ chartState = [queryBy |-> "", metricName |-> "", data |-> << >>]
    /\ isLoading = FALSE
    /\ error = NoError
    /\ wiring = w
    /\ pending = << >>
    /\ started = 0
    /\ shown = 0
    /\ lastSettled = NoSettle

\* The (title, snapshot date) units of ingestion.
Units == {"7"} \X Dates

\* Nothing ingested, from a source that holds the given sections.
Offline(sections) ==
    /\ metricsStore = {}
    /\ corpus = sections
    /\ runs = [u \in Units |-> 0]

NoSections == [u \in Units |-> << >>]

Init == InitWith(1, MaxItems) /\ Home(DefaultMaxSelections, "items", "client") /\ Offline(NoSections)

\* One request starts: supabaseHandler is called, or POST has parsed its body.
Begin(e, qb, items, metric) ==
    /\ entry' = e
    /\ bodyOk' = TRUE
    /\ queryBy' = qb
    /\ selectedItems' = items
    /\ selectedMetric' = metric
    /\ pc' = "loop"
    /\ i' = 1
    /\ validRefs' = << >>
    /\ r' = 1
    /\ pairResults' = << >>
    /\ agencyResults' = << >>
    /\ titleResults' = << >>
    /\ response' = NoResponse
    /\ storeLog' = << >>
    /\ UNCHANGED << agencies, maxRecs, maxItems, page, ingest, fetch >>

Call ==
    /\ pc = "idle"
    /\ \E e \in {"handler", "POST"}, metric \in Metrics :
        \/ \E items \in Selections(AgencyNames) : Begin(e, "agency", items, metric)
        \/ \E items \in Selections(TitleIds) : Begin(e, "cfr-title", items, metric)
        \/ Begin(e, "", << >>, metric)

\* POST: await request.json() throws on a body that is not JSON.
PostMalformed ==
    /\ pc = "idle"
    /\ entry' = "POST"
    /\ bodyOk' = FALSE
    /\ queryBy' = ""
    /\ selectedItems' = << >>
    /\ selectedMetric' = ""
    /\ pc' = "done"
    /\ i' = 1
    /\ validRefs' = << >>
    /\ r' = 1
    /\ pairResults' = << >>
    /\ agencyResults' = << >>
    /\ titleResults' = << >>
    /\ response' = ServerError
    /\ storeLog' = << >>
    /\ UNCHANGED << agencies, maxRecs, maxItems, page, ingest, fetch >>

\* ------------------------------------------------------------- agency query

Frame == UNCHANGED << agencies, maxRecs, maxItems, entry, bodyOk, queryBy, selectedItems,
                      selectedMetric, page, ingest, fetch >>

\* The entry of the registry the current item names (0: none).
Agency == FindAgency(agencies, selectedItems[i])

\* !agency?.cfr_references?.length
NoReferences ==
    IF Agency = 0 THEN TRUE ELSE Len(agencies[Agency].cfr_references) = 0

\* An agency the registry lacks, or one without references: an empty series,
\* and the loop continues without a delay.
AgencySkip ==
    /\ pc = "loop" /\ queryBy = "agency"
    /\ i <= Len(selectedItems)
    /\ NoReferences
    /\ agencyResults' = Append(agencyResults, << >>)
    /\ i' = i + 1
    /\ UNCHANGED << pc, validRefs, r, pairResults, titleResults, response, storeLog >>
    /\ Frame

\* AgencyBegin that iterates over all the references of the agency.
AgencyBeginAllRefs ==
    /\ pc = "loop" /\ queryBy = "agency"
    /\ i <= Len(selectedItems)
    /\ ~NoReferences
    /\ validRefs' = agencies[Agency].cfr_references
    /\ pairResults' = << >>
    /\ r' = 1
    /\ pc' = "pairs"
    /\ UNCHANGED << i, agencyResults, titleResults, response, storeLog >>
    /\ Frame

\* AgencyBegin that writes the filtered references back into the registry.
AgencyBeginFiltersInPlace ==
    /\ pc = "loop" /\ queryBy = "agency"
    /\ i <= Len(selectedItems)
    /\ ~NoReferences
    /\ validRefs' = FilterRefs(agencies[Agency].cfr_references)
    /\ agencies' = [agencies EXCEPT ![Agency].cfr_references = validRefs']
    /\ pairResults' = << >>
    /\ r' = 1
    /\ pc' = "pairs"
    /\ UNCHANGED << i, agencyResults, titleResults, response, storeLog >>
    /\ UNCHANGED << maxRecs, maxItems, entry, bodyOk, queryBy, selectedItems,
                    selectedMetric, page, ingest, fetch >>

AgencyBegin ==
    /\ pc = "loop" /\ queryBy = "agency"
    /\ i <= Len(selectedItems)
    /\ ~NoReferences
    /\ validRefs' = FilterRefs(agencies[Agency].cfr_references)
    /\ pairResults' = << >>
    /\ r' = 1
    /\ pc' = "pairs"
    /\ UNCHANGED << i, agencyResults, titleResults, response, storeLog >>
    /\ Frame

\* A store call as the log keeps it: not yet answered.
StoreCall(rpc, title, chapter) ==
    [item |-> i, rpc |-> rpc, title |-> title, chapter |-> chapter,
     metric |-> selectedMetric, answered |-> FALSE, error |-> FALSE,
     at |-> [date \in Dates |-> NoRow], waited |-> 0]

Answered(call, resp) ==
    [call EXCEPT !.answered = TRUE, !.error = resp.error,
                 !.at = [date \in Dates |-> LastRowAt(resp, date)]]

\* The milliseconds of the three delays.
PairDelayMs == 500
AgencyDelayMs == 1000
TitleDelayMs == 1000

\* delay(ms) has resolved: the time since the last store call returned grows.
Waited(log, ms) ==
    IF log = << >> THEN log
    ELSE [log EXCEPT ![Len(log)].waited = @ + ms]

\* supabase.rpc('get_metric_total_for_pairs', ...) is sent for the next reference.
PairRpcStart ==
    /\ pc = "pairs"
    /\ r <= Len(validRefs)
    /\ storeLog' = Append(storeLog,
                          StoreCall("get_metric_total_for_pairs",
                                    ToString(validRefs[r].title), validRefs[r].chapter))
    /\ pc' = "pairAwait"
    /\ UNCHANGED << i, validRefs, r, pairResults, agencyResults, titleResults, response >>
    /\ Frame

\* The call resolves; getMetricTotalForPairs returns and its result is pushed.
PairRpcReturn ==
    /\ pc = "pairAwait"
    /\ \E resp \in RpcResponses(selectedMetric, maxRecs) :
        LET result == getMetricTotalForPairs(<< ToString(validRefs[r].title) >>,
                                             << validRefs[r].chapter >>,
                                             selectedMetric, resp)
        IN /\ storeLog' = [storeLog EXCEPT ![Len(storeLog)] = Answered(@, resp)]
           /\ IF result.threw
              THEN /\ response' = Raise
                   /\ pc' = "done"
                   /\ UNCHANGED pairResults
              ELSE /\ pairResults' = Append(pairResults, result.points)
                   /\ pc' = "pairDelay"
                   /\ UNCHANGED response
    /\ UNCHANGED << i, validRefs, r, agencyResults, titleResults >>
    /\ Frame

\* PairDelay whose delay is not awaited.
PairDelayNotAwaited ==
    /\ pc = "pairDelay"
    /\ r' = r + 1
    /\ pc' = "pairs"
    /\ UNCHANGED << i, validRefs, pairResults, agencyResults, titleResults, response,
                    storeLog >>
    /\ Frame

\* await delay(500)
PairDelay ==
    /\ pc = "pairDelay"
    /\ storeLog' = Waited(storeLog, PairDelayMs)
    /\ r' = r + 1
    /\ pc' = "pairs"
    /\ UNCHANGED << i, validRefs, pairResults, agencyResults, titleResults, response >>
    /\ Frame

\* The pairs of the agency are combined and its series is pushed.
AgencyCombine ==
    /\ pc = "pairs"
    /\ r > Len(validRefs)
    /\ agencyResults' = Append(agencyResults,
                               AgencySeries(selectedItems[i], selectedMetric, pairResults))
    /\ pc' = "agencyDelay"
    /\ UNCHANGED << i, validRefs, r, pairResults, titleResults, response, storeLog >>
    /\ Frame

\* AgencyDelay whose promise never resolves.
AgencyDelayNeverResolves ==
    /\ pc = "agencyDelay"
    /\ UNCHANGED vars

\* await delay(1000), then the next agency
AgencyDelay ==
    /\ pc = "agencyDelay"
    /\ storeLog' = Waited(storeLog, AgencyDelayMs)
    /\ i' = i + 1
    /\ pc' = "loop"
    /\ UNCHANGED << validRefs, r, pairResults, agencyResults, titleResults, response >>
    /\ Frame

AgencyMerge ==
    /\ pc = "loop" /\ queryBy = "agency"
    /\ i > Len(selectedItems)
    /\ response' = Respond(MergeAgencies(selectedItems, agencyResults))
    /\ pc' = "done"
    /\ UNCHANGED << i, validRefs, r, pairResults, agencyResults, titleResults, storeLog >>
    /\ Frame

\* -------------------------------------------------------------- title query

TitleRpcStart ==
    /\ pc = "loop" /\ queryBy = "cfr-title"
    /\ i <= Len(selectedItems)
    /\ storeLog' = Append(storeLog,
                          StoreCall("get_metric_total_for_title", selectedItems[i], NoChapter))
    /\ pc' = "titleAwait"
    /\ UNCHANGED << i, validRefs, r, pairResults, agencyResults, titleResults, response >>
    /\ Frame

TitleRpcReturn ==
    /\ pc = "titleAwait"
    /\ \E resp \in RpcResponses(selectedMetric, maxRecs) :
        LET result == getMetricTotalForTitle(selectedItems[i], selectedMetric, resp)
        IN /\ storeLog' = [storeLog EXCEPT ![Len(storeLog)] = Answered(@, resp)]
           /\ IF result.threw
              THEN /\ response' = Raise
                   /\ pc' = "done"
                   /\ UNCHANGED titleResults
              ELSE /\ titleResults' = Append(titleResults, result.points)
                   /\ pc' = "titleDelay"
                   /\ UNCHANGED response
    /\ UNCHANGED << i, validRefs, r, pairResults, agencyResults >>
    /\ Frame

\* await delay(1000), then the next title
TitleDelay ==
    /\ pc = "titleDelay"
    /\ storeLog' = Waited(storeLog, TitleDelayMs)
    /\ i' = i + 1
    /\ pc' = "loop"
    /\ UNCHANGED << validRefs, r, pairResults, agencyResults, titleResults, response >>
    /\ Frame

TitleMerge ==
    /\ pc = "loop" /\ queryBy = "cfr-title"
    /\ i > Len(selectedItems)
    /\ response' = Respond(MergeTitles(selectedItems, titleResults))
    /\ pc' = "done"
    /\ UNCHANGED << i, validRefs, r, pairResults, agencyResults, titleResults, storeLog >>
    /\ Frame

\* Neither 'agency' nor 'cfr-title': return []
ReturnEmpty ==
    /\ pc = "loop"
    /\ queryBy \notin {"agency", "cfr-title"}
    /\ response' = Respond(<< >>)
    /\ pc' = "done"
    /\ UNCHANGED << i, validRefs, r, pairResults, agencyResults, titleResults, storeLog >>
    /\ Frame

\* The caller has taken the answer; the next request starts afresh.
Settle ==
    /\ pc = "done"
    /\ entry' = "handler"
    /\ bodyOk' = TRUE
    /\ queryBy' = ""
    /\ selectedItems' = << >>
    /\ selectedMetric' = ""
    /\ pc' = "idle"
    /\ i' = 1
    /\ validRefs' = << >>
    /\ r' = 1
    /\ pairResults' = << >>
    /\ agencyResults' = << >>
    /\ titleResults' = << >>
    /\ response' = NoResponse
    /\ storeLog' = << >>
    /\ UNCHANGED << agencies, maxRecs, maxItems, page, ingest, fetch >>

\* ----------------------------------------------------------- specifications

Next ==
    \/ Call
    \/ PostMalformed
    \/ AgencySkip
    \/ AgencyBegin
    \/ PairRpcStart
    \/ PairRpcReturn
    \/ PairDelay
    \/ AgencyCombine
    \/ AgencyDelay
    \/ AgencyMerge
    \/ TitleRpcStart
    \/ TitleRpcReturn
    \/ TitleDelay
    \/ TitleMerge
    \/ ReturnEmpty
    \/ Settle

Spec == Init /\ [][Next]_vars

\* The steps a started request resumes with: a continuation runs once the
\* promise it awaits has resolved, every timer fires and every store call is
\* answered.
Resume ==
    \/ AgencySkip
    \/ AgencyBegin
    \/ PairRpcStart
    \/ PairRpcReturn
    \/ PairDelay
    \/ AgencyDelay
    \/ TitleRpcStart
    \/ TitleRpcReturn
    \/ TitleDelay
    \/ ReturnEmpty

\* The steps that only compute: the code after a loop runs to its end.
Compute ==
    \/ AgencyCombine
    \/ AgencyMerge
    \/ TitleMerge

\* A Compute step is enabled: its loop has ended.
ComputeReady ==
    \/ pc = "pairs" /\ r > Len(validRefs)
    \/ pc = "loop" /\ queryBy \in {"agency", "cfr-title"} /\ i > Len(selectedItems)

\* Weak fairness of Resume and of Compute, the latter written out with
\* ComputeReady for ENABLED <<Compute>>_vars.
SpecFair ==
    /\ Init /\ [][Next]_vars
    /\ WF_vars(Resume)
    /\ ([]<>(~ComputeReady) \/ []<><<Compute>>_vars)

\* The same program, one group per request, over a store that holds up to
\* MaxRecs section records per selector and date.
InitRecords ==
    InitWith(MaxRecs, 1) /\ Home(DefaultMaxSelections, "items", "client") /\ Offline(NoSections)

SpecRecords == InitRecords /\ [][Next]_vars

\* ---- The page and its MultiSelect ----

\* The options of the MultiSelect the page renders for a query type.
Options(qb) ==
    IF qb = "agency" THEN AgencyNames
    ELSE IF qb = "cfr-title" THEN TitleIds
    ELSE {}

\* selectedOptions.includes(value)
Includes(s, value) == \E k \in 1..Len(s) : s[k] = value

\* selectedOptions.filter((item) => item !== value)
Without(s, value) ==
    LET keep(item) == item # value IN SelectSeq(s, keep)

Event(op, value, called) ==
    [op |-> op, value |-> value, had |-> Len(selectedOptions), onChange |-> called,
     tick |-> 1 - lastEvent.tick]

\* onChange that always writes the agency list.
onChangeAgenciesOnly(values) ==
    sidebarState' = [sidebarState EXCEPT !.selectedAgencies = values]

\* The page's onChange: the list of the rendered query type takes the values.
onChange(values) ==
    sidebarState' = IF sidebarState.queryBy = "agency"
                    THEN [sidebarState EXCEPT !.selectedAgencies = values]
                    ELSE [sidebarState EXCEPT !.selectedTitles = values]

\* handleSelectChange without the cap.
handleSelectChangeUncapped(value) ==
    LET isSelected == Includes(selectedOptions, value)
        newValues == IF isSelected THEN Without(selectedOptions, value)
                     ELSE Append(selectedOptions, value)
    IN  /\ selectedOptions' = newValues
        /\ onChange(newValues)
        /\ lastEvent' = Event("handleSelectChange", value, TRUE)

handleSelectChange(value) ==
    LET isSelected == Includes(selectedOptions, value)
        newValues == IF isSelected THEN Without(selectedOptions, value)
                     ELSE Append(selectedOptions, value)
    IN  IF ~isSelected /\ Len(selectedOptions) >= maxSelections
        THEN /\ lastEvent' = Event("handleSelectChange", value, FALSE)
             /\ UNCHANGED << selectedOptions, sidebarState >>
        ELSE /\ selectedOptions' = newValues
             /\ onChange(newValues)
             /\ lastEvent' = Event("handleSelectChange", value, TRUE)

\* <Select onValueChange={handleSelectChange}>
SelectValueChange ==
    /\ variant = "items"
    /\ \E value \in Options(sidebarState.queryBy) : handleSelectChange(value)
    /\ UNCHANGED << maxSelections, variant, facade, ingest, fetch >>

\* onClick of an option's <div>
OptionClick ==
    /\ variant = "divs"
    /\ \E value \in Options(sidebarState.queryBy) :
          IF ~Includes(selectedOptions, value) /\ Len(selectedOptions) >= maxSelections
          THEN /\ lastEvent' = Event("onClick", value, FALSE)
               /\ UNCHANGED << selectedOptions, sidebarState >>
          ELSE handleSelectChange(value)
    /\ UNCHANGED << maxSelections, variant, facade, ingest, fetch >>

handleRemove ==
    /\ variant = "items"
    /\ \E value \in Options(sidebarState.queryBy) :
          LET newValues == Without(selectedOptions, value) IN
          /\ selectedOptions' = newValues
          /\ onChange(newValues)
          /\ lastEvent' = Event("handleRemove", value, TRUE)
    /\ UNCHANGED << maxSelections, variant, facade, ingest, fetch >>

\* QueryByChange that sets only queryBy.
QueryByChangeKeepsLists ==
    /\ \E value \in {"agency", "cfr-title"} :
          /\ value # sidebarState.queryBy
          /\ sidebarState' = [sidebarState EXCEPT !.queryBy = value]
          /\ lastEvent' = Event("onQueryByChange", value, FALSE)
    /\ selectedOptions' = << >>
    /\ UNCHANGED << maxSelections, variant, facade, ingest, fetch >>

\* Query By onValueChange; the MultiSelect of the other query type is
\* unmounted and the one of the new type mounts with an empty list.
QueryByChange ==
    /\ \E value \in {"agency", "cfr-title"} :
          /\ value # sidebarState.queryBy
          /\ sidebarState' = [sidebarState EXCEPT !.queryBy = value,
                                                  !.selectedAgencies = << >>,
                                                  !.selectedTitles = << >>]
          /\ lastEvent' = Event("onQueryByChange", value, FALSE)
    /\ selectedOptions' = << >>
    /\ UNCHANGED << maxSelections, variant, facade, ingest, fetch >>

\* Select Metric onValueChange
MetricChange ==
    /\ \E value \in Metrics :
          /\ value # sidebarState.selectedMetric
          /\ sidebarState' = [sidebarState EXCEPT !.selectedMetric = value]
          /\ lastEvent' = Event("onMetricChange", value, FALSE)
    /\ UNCHANGED << selectedOptions, maxSelections, variant, facade, ingest, fetch >>

InitPage ==
    /\ InitWith(1, MaxItems)
    /\ \E cap \in 0..MaxCap, v \in {"items", "divs"} : Home(cap, v, "client")
    /\ Offline(NoSections)

NextPage ==
    \/ SelectValueChange
    \/ OptionClick
    \/ handleRemove
    \/ QueryByChange
    \/ MetricChange

SpecPage == InitPage /\ [][NextPage]_vars

\* ---- The page's requests ----

\* setError('Failed to generate data. Please try again.')
ErrorMessage == "Failed to generate data. Please try again."

\* The tables a request can be answered with.
ResultTables == {<< >>, << [date |-> 2018] >>}

\* How a call of supabaseHandler can end, by what the page imports.
Outcomes(w) == IF w = "client" THEN {"ok", "network", "status"} ELSE {"ok", "threw"}

Failures == {"threw", "network", "status"}

\* The fetch client: fetch rejecting and a response that is not ok are both
\* caught, and the client returns [].
FetchClient(outcome, table) ==
    IF outcome = "ok" THEN [resolved |-> TRUE, data |-> table]
    ELSE [resolved |-> TRUE, data |-> << >>]

\* The library handler called in the page: it resolves with its table or rejects.
LibraryHandler(outcome, table) ==
    IF outcome = "ok" THEN [resolved |-> TRUE, data |-> table]
    ELSE [resolved |-> FALSE, data |-> << >>]

Answer(w, outcome, table) ==
    IF w = "client" THEN FetchClient(outcome, table) ELSE LibraryHandler(outcome, table)

\* The props the page passes to Chart.
ChartProps ==
    [metricName |-> sidebarState.selectedMetric, queryBy |-> sidebarState.queryBy,
     data |-> chartState.data]

\* The Visualize button's disabled attribute without isLoading.
DisabledIgnoresLoading ==
    \/ sidebarState.queryBy = ""
    \/ sidebarState.selectedMetric = ""
    \/ (sidebarState.queryBy = "agency" /\ Len(sidebarState.selectedAgencies) = 0)
    \/ (sidebarState.queryBy = "cfr-title" /\ Len(sidebarState.selectedTitles) = 0)

\* The Visualize button's disabled attribute.
Disabled ==
    \/ isLoading
    \/ sidebarState.queryBy = ""
    \/ sidebarState.selectedMetric = ""
    \/ (sidebarState.queryBy = "agency" /\ Len(sidebarState.selectedAgencies) = 0)
    \/ (sidebarState.queryBy = "cfr-title" /\ Len(sidebarState.selectedTitles) = 0)

\* fetchData up to its await: the request takes the sidebar of this render.
fetchData ==
    IF sidebarState.queryBy = "" \/ sidebarState.selectedMetric = ""
    THEN UNCHANGED fetch
    ELSE /\ isLoading' = TRUE
         /\ error' = NoError
         /\ started' = started + 1
         /\ pending' = Append(pending,
                [id |-> started + 1,
                 queryBy |-> sidebarState.queryBy,
                 items |-> IF sidebarState.queryBy = "cfr-title"
                           THEN sidebarState.selectedTitles
                           ELSE sidebarState.selectedAgencies,
                 metric |-> sidebarState.selectedMetric])
         /\ UNCHANGED << chartState, wiring, shown, lastSettled >>

\* handleVisualize: it calls fetchData.
handleVisualize ==
    /\ started < MaxRequests
    /\ fetchData
    /\ lastEvent' = Event("handleVisualize", "", FALSE)
    /\ UNCHANGED << sidebarState, selectedOptions, maxSelections, variant, facade, ingest >>

\* A click on the Visualize button.
Visualize == ~Disabled /\ handleVisualize

\* handleVisualize called as a function, with few requests pending.
VisualizeCall == Len(pending) < MaxPending /\ handleVisualize

\* pending without its k-th request
Forget(k) == [j \in 1..(Len(pending) - 1) |-> IF j < k THEN pending[j] ELSE pending[j + 1]]

\* fetchData after its await, with setIsLoading(false) only where the try ends well.
fetchDataResumeNoFinally(k, outcome, table) ==
    LET q == pending[k]
        ans == Answer(wiring, outcome, table)
    IN  /\ IF ans.resolved
           THEN /\ chartState' = [queryBy |-> q.queryBy, metricName |-> q.metric,
                                  data |-> ans.data]
                /\ shown' = q.id
                /\ isLoading' = FALSE
                /\ UNCHANGED error
           ELSE /\ error' = ErrorMessage
                /\ UNCHANGED << chartState, shown, isLoading >>
        /\ pending' = Forget(k)
        /\ lastSettled' = [id |-> q.id, outcome |-> outcome, before |-> chartState.data]

\* fetchData after its await: the try's setChartState or the catch's
\* setError, then the finally's setIsLoading(false).
fetchDataResume(k, outcome, table) ==
    LET q == pending[k]
        ans == Answer(wiring, outcome, table)
    IN  /\ IF ans.resolved
           THEN /\ chartState' = [queryBy |-> q.queryBy, metricName |-> q.metric,
                                  data |-> ans.data]
                /\ shown' = q.id
                /\ UNCHANGED error
           ELSE /\ error' = ErrorMessage
                /\ UNCHANGED << chartState, shown >>
        /\ isLoading' = FALSE
        /\ pending' = Forget(k)
        /\ lastSettled' = [id |-> q.id, outcome |-> outcome, before |-> chartState.data]

\* The handler's promise settles and fetchData runs on.
HandlerSettles ==
    /\ pending # << >>
    /\ \E k \in 1..Len(pending), outcome \in Outcomes(wiring) :
          \E table \in (IF outcome = "ok" THEN ResultTables ELSE {<< >>}) :
             fetchDataResume(k, outcome, table)
    /\ UNCHANGED << wiring, started, page, facade, ingest >>

\* The options the user picks among while requests run.
Picks == {"E", "N", "1"}

\* <Select onValueChange={handleSelectChange}>, for the options of Picks
SelectPick ==
    /\ variant = "items"
    /\ \E value \in Options(sidebarState.queryBy) \cap Picks : handleSelectChange(value)
    /\ UNCHANGED << maxSelections, variant, facade, ingest, fetch >>

InitFetch ==
    /\ InitWith(1, MaxItems)
    /\ \E w \in {"client", "library"} : Home(DefaultMaxSelections, "items", w)
    /\ Offline(NoSections)

NextFetch ==
    \/ SelectPick
    \/ QueryByChange
    \/ MetricChange
    \/ Visualize
    \/ HandlerSettles

SpecFetch == InitFetch /\ [][NextFetch]_vars

NextFetchCalls ==
    \/ SelectPick
    \/ QueryByChange
    \/ MetricChange
    \/ VisualizeCall
    \/ HandlerSettles

\* Every promise of the handler settles.
SpecFetchFair == InitFetch /\ [][NextFetchCalls]_vars /\ WF_vars(HandlerSettles)

\* ---- The Metrics Store and the Version Ingestor ----

\* The natural key of a section metric record.
Key(record) == << record.title, record.section, record.date >>

\* The section metric records one run over a unit produces.
RecordsOf(u) ==
    {[title |-> u[1], date |-> u[2], section |-> k, value |-> corpus[u][k]] :
        k \in 1..Len(corpus[u])}

\* upsert that adds to the record it finds under the key.
upsertAdditive(store, record) ==
    LET old == {x \in store : Key(x) = Key(record)} IN
    IF old = {} THEN store \cup {record}
    ELSE (store \ old) \cup {[x EXCEPT !.value = @ + record.value] : x \in old}

\* upsert(record): the record replaces the one with its natural key.
upsert(store, record) ==
    {x \in store : Key(x) # Key(record)} \cup {record}

RECURSIVE UpsertAll(_, _)
UpsertAll(store, records) ==
    IF records = {} THEN store
    ELSE LET record == CHOOSE x \in records : TRUE IN
         UpsertAll(upsert(store, record), records \ {record})

\* One run of the ingestor over a (title, snapshot date).
Ingest ==
    /\ \E u \in Units :
          /\ runs[u] < MaxRuns
          /\ metricsStore' = UpsertAll(metricsStore, RecordsOf(u))
          /\ runs' = [runs EXCEPT ![u] = @ + 1]
    /\ UNCHANGED << corpus, facade, page, fetch >>

InitIngest ==
    /\ InitWith(1, MaxItems)
    /\ Home(DefaultMaxSelections, "items", "client")
    /\ \E sections \in [Units -> UNION {[1..k -> Vals] : k \in 0..MaxSections}] :
          Offline(sections)

NextIngest == Ingest

SpecIngest == InitIngest /\ [][NextIngest]_vars

\* ------------------------------------------------------------------ claims

\* The request was well formed and has answered with a table.
Finished == pc = "done" /\ bodyOk /\ response.status = "ok"

Rows == response.body
Items == 1..Len(selectedItems)
ItemSet == {selectedItems[k] : k \in Items}

\* The store calls issued for the k-th requested group.
CallsOf(k) == {c \in 1..Len(storeLog) : storeLog[c].item = k}

\* The store answered call c with a row for date d.
HasData(c, d) == storeLog[c].answered /\ storeLog[c].at[d] # NoRow

\* The dates of the series of the k-th group: those the store returned for it.
SeriesDates(k) == {d \in Dates : \E c \in CallsOf(k) : HasData(c, d)}

RowsAt(d) == {j \in 1..Len(Rows) : Rows[j].date = d}
Cell(j, k) == Rows[j].cols[selectedItems[k]]

\* The registry entry of a name as agencies.json holds it, and its references
\* with a chapter.
EntryOf(name) == agenciesData[CHOOSE a \in 1..Len(agenciesData) : agenciesData[a].name = name]
RefsOf(name) ==
    {EntryOf(name).cfr_references[x] : x \in 1..Len(EntryOf(name).cfr_references)}
RefsWithChapter(name) == {ref \in RefsOf(name) : ref.chapter # NoChapter}

\* The calls of group k for one reference.
CallsFor(k, ref) ==
    {c \in CallsOf(k) : /\ storeLog[c].rpc = "get_metric_total_for_pairs"
                        /\ storeLog[c].title = ToString(ref.title)
                        /\ storeLog[c].chapter = ref.chapter}

\* Over the first c calls: the sum of the totals the store returned for group
\* k at date d, and the number of calls that returned one.
RECURSIVE ReturnedTotal(_, _, _)
ReturnedTotal(k, d, c) ==
    IF c = 0 THEN Num(0)
    ELSE IF c \in CallsOf(k) /\ HasData(c, d)
         THEN Add(ReturnedTotal(k, d, c - 1), storeLog[c].at[d].total_metric)
         ELSE ReturnedTotal(k, d, c - 1)

ReturnedCount(k, d) == Cardinality({c \in CallsOf(k) : HasData(c, d)})

\* C1: the table has exactly one row for each date of some requested group's
\* series, none for any other date, and every row holds a cell, a number or
\* null, for every requested group.
C1_OneRowPerSeriesDate ==
    Finished =>
        /\ \A d \in Dates :
              Cardinality(RowsAt(d)) = IF \E k \in Items : d \in SeriesDates(k) THEN 1 ELSE 0
        /\ \A j \in 1..Len(Rows) :
              /\ Rows[j].date \in Dates
              /\ DOMAIN Rows[j].cols = ItemSet
              /\ \A k \in Items : Cell(j, k) = Null \/ IsNumber(Cell(j, k))

\* Two groups, one with data at one date only and one with none: one row.
C1_Witness ==
    /\ Finished
    /\ Len(selectedItems) = 2
    /\ SeriesDates(1) = {2018}
    /\ SeriesDates(2) = {}
    /\ Len(Rows) = 1
    /\ Cell(1, 2) = Null

\* C2: the cell of a group at a date its own series lacks is null.
C2_NullWhereNoData ==
    Finished =>
        \A k \in Items, d \in Dates :
            d \notin SeriesDates(k) => \A j \in RowsAt(d) : Cell(j, k) = Null

\* A row that exists only because of the other group.
C2_Witness ==
    /\ Finished
    /\ \E k \in Items, d \in Dates :
          /\ d \notin SeriesDates(k)
          /\ RowsAt(d) # {}
          /\ \A j \in RowsAt(d) : Cell(j, k) = Null

\* C3 (as claimed): when every total the store returned for a group at a date
\* is 0, the group's cell at that date is the number 0.
C3_ZeroIsKept ==
    Finished =>
        \A k \in Items : \A d \in SeriesDates(k) :
            (\A c \in CallsOf(k) : HasData(c, d) => storeLog[c].at[d].total_metric = Num(0))
                => \A j \in RowsAt(d) : Cell(j, k) = Num(0)

\* C4: for word_count and mandate_count every reference with a chapter is
\* read once, and the agency's cell is the sum of what the store returned
\* for them at the date.
C4_AgencySum ==
    (Finished /\ queryBy = "agency" /\ selectedMetric # "readability_score") =>
        \A k \in Items :
            /\ \A ref \in RefsWithChapter(selectedItems[k]) :
                   Cardinality(CallsFor(k, ref)) = 1
            /\ \A d \in SeriesDates(k) : \A j \in RowsAt(d) :
                   Cell(j, k) = ReturnedTotal(k, d, Len(storeLog))

\* Two references that both returned a non-zero total at the date.
C4_Witness ==
    /\ Finished /\ queryBy = "agency" /\ selectedMetric = "word_count"
    /\ \E k \in Items, d \in Dates :
          /\ ReturnedCount(k, d) = 2
          /\ \A c \in CallsOf(k) : storeLog[c].at[d].total_metric = Num(1)
          /\ \E j \in RowsAt(d) : Cell(j, k) = Num(2)

\* C5: for readability_score the agency's cell is the mean of the totals of
\* the references that returned one at the date.
C5_AgencyMean ==
    (Finished /\ queryBy = "agency" /\ selectedMetric = "readability_score") =>
        \A k \in Items : \A d \in SeriesDates(k) : \A j \in RowsAt(d) :
            /\ IsNumber(Cell(j, k))
            /\ Cell(j, k).n * ReturnedTotal(k, d, Len(storeLog)).d * ReturnedCount(k, d)
                  = ReturnedTotal(k, d, Len(storeLog)).n * Cell(j, k).d

\* Two references scoring 1 and 1: the mean 1, not the sum 2.
C5_Witness ==
    /\ Finished /\ queryBy = "agency" /\ selectedMetric = "readability_score"
    /\ \E k \in Items, d \in Dates :
          /\ ReturnedCount(k, d) = 2
          /\ \A c \in CallsOf(k) : storeLog[c].at[d].total_metric = Num(1)
          /\ \E j \in RowsAt(d) : Cell(j, k) = Num(1)

\* Over the first c calls: the sum and the number of the section records the
\* store matched for group k at date d.
RECURSIVE RecordSum(_, _, _)
RecordSum(k, d, c) ==
    IF c = 0 THEN 0
    ELSE RecordSum(k, d, c - 1)
         + (IF c \in CallsOf(k) /\ HasData(c, d) THEN SumOf(storeLog[c].at[d].records) ELSE 0)

RECURSIVE RecordCount(_, _, _)
RecordCount(k, d, c) ==
    IF c = 0 THEN 0
    ELSE RecordCount(k, d, c - 1)
         + (IF c \in CallsOf(k) /\ HasData(c, d) THEN Len(storeLog[c].at[d].records) ELSE 0)

\* C6 (as claimed): the value of an agency at a date aggregates all the
\* matching records of all its pairs together: their sum, or for readability
\* their mean.
C6_AggregatedOverAllRecords ==
    (Finished /\ queryBy = "agency") =>
        \A k \in Items : \A d \in SeriesDates(k) : \A j \in RowsAt(d) :
            /\ IsNumber(Cell(j, k))
            /\ IF selectedMetric = "readability_score"
               THEN Cell(j, k).n * RecordCount(k, d, Len(storeLog))
                       = RecordSum(k, d, Len(storeLog)) * Cell(j, k).d
               ELSE Cell(j, k) = Num(RecordSum(k, d, Len(storeLog)))

\* C7 (as claimed): the column of a group one of whose store reads failed is
\* null in every row.
C7_FailedGroupAllNull ==
    Finished =>
        \A k \in Items :
            (\E c \in CallsOf(k) : storeLog[c].error)
                => \A j \in 1..Len(Rows) : Cell(j, k) = Null

\* C8: whatever reads fail, a well-formed request never throws nor answers
\* with an error, and ends with a table.
C8_NeverRaises ==
    bodyOk =>
        /\ response.status \in {"none", "ok"}
        /\ pc = "done" => response.status = "ok"

\* A request that ended with a table although one of its reads failed.
C8_Witness ==
    /\ Finished
    /\ \E c \in 1..Len(storeLog) : storeLog[c].error
    /\ \E c \in 1..Len(storeLog) : ~storeLog[c].error

\* C9: an agency without a reference that has a chapter causes no store call
\* and no error, has an empty series, and its cell is null in every row that
\* the other groups contribute.
C9_NoUsableReference ==
    queryBy = "agency" =>
        \A k \in Items :
            RefsWithChapter(selectedItems[k]) = {} =>
                /\ CallsOf(k) = {}
                /\ response.status \in {"none", "ok"}
                /\ Len(agencyResults) >= k => agencyResults[k] = << >>
                /\ Finished =>
                      /\ \A j \in 1..Len(Rows) : Cell(j, k) = Null
                      /\ \A other \in Items : \A d \in SeriesDates(other) : RowsAt(d) # {}

\* The agency whose references all lack a chapter, beside a group with data.
C9_Witness ==
    /\ Finished /\ queryBy = "agency"
    /\ \E k \in Items :
          /\ selectedItems[k] = "N"
          /\ Len(Rows) = 2
          /\ \A j \in 1..Len(Rows) : Cell(j, k) = Null

\* C10: no store call is issued for a reference without a chapter: the calls
\* of an agency are those of its references that have one, once each.
C10_ChapterlessExcluded ==
    queryBy = "agency" =>
        /\ \A c \in 1..Len(storeLog) :
              /\ storeLog[c].chapter # NoChapter
              /\ \E ref \in RefsWithChapter(selectedItems[storeLog[c].item]) :
                    c \in CallsFor(storeLog[c].item, ref)
        /\ Finished =>
              \A k \in Items :
                  /\ Cardinality(CallsOf(k)) = Cardinality(RefsWithChapter(selectedItems[k]))
                  /\ \A d \in Dates :
                        ReturnedCount(k, d) <= Cardinality(RefsWithChapter(selectedItems[k]))

\* The agency with one reference of each kind: one call, and its data shown.
C10_Witness ==
    /\ Finished /\ queryBy = "agency"
    /\ \E k \in Items :
          /\ selectedItems[k] = "Y"
          /\ Cardinality(CallsOf(k)) = 1
          /\ SeriesDates(k) = Dates
          /\ \A j \in 1..Len(Rows) : IsNumber(Cell(j, k))

\* The store calls of the request that have not been answered yet.
InFlight == {c \in 1..Len(storeLog) : ~storeLog[c].answered}

\* C11: at most one store call of a request is in flight, and a call is sent
\* only when every earlier call has been answered and a delay has elapsed
\* since.
C11_OneCallAtATime ==
    /\ [](Cardinality(InFlight) <= 1)
    /\ [][Len(storeLog') > Len(storeLog) =>
            \A c \in 1..Len(storeLog) : storeLog[c].answered /\ storeLog[c].waited > 0]_vars

\* A third call in flight, after two that were answered and waited for.
C11_Witness ==
    /\ Len(storeLog) = 3
    /\ InFlight = {3}
    /\ storeLog[1].waited = PairDelayMs
    /\ storeLog[2].waited = PairDelayMs + AgencyDelayMs

\* The requested groups whose selector is not empty: every title, and the
\* agencies with a reference that has a chapter.
GroupsWithSelector ==
    {k \in Items : queryBy = "cfr-title" \/ RefsWithChapter(selectedItems[k]) # {}}

\* C12: a request issues as many store calls as it has groups
\* with a non-empty selector.
C12_OneCallPerGroup ==
    (Finished /\ queryBy \in {"agency", "cfr-title"}) =>
        Len(storeLog) = Cardinality(GroupsWithSelector)

\* C13: the rows of the returned table are in strictly ascending date order,
\* for agency and cfr-title queries, whatever the order of the requested
\* groups and of the rows the store returned.
C13_RowsAscending ==
    Finished =>
        \A j \in 1..Len(Rows) : \A l \in 1..Len(Rows) :
            j < l => Rows[j].date < Rows[l].date

\* The first group has data only at the later date and the second only at
\* the earlier one: dates are first seen in descending order.
C13_Witness ==
    /\ Finished /\ queryBy = "cfr-title"
    /\ Len(selectedItems) = 2
    /\ SeriesDates(1) = {2019}
    /\ SeriesDates(2) = {2018}
    /\ Len(Rows) = 2
    /\ Rows[1].date = 2018

\* An event has just tried to add `value` to a MultiSelect that is at its cap.
AddAtCap ==
    /\ lastEvent' # lastEvent
    /\ lastEvent'.op \in {"handleSelectChange", "onClick"}
    /\ ~Includes(selectedOptions, lastEvent'.value)
    /\ Len(selectedOptions) >= maxSelections

\* C14: whatever is selected, deselected or removed, the MultiSelect never
\* holds more than maxSelections options, and an attempt to add an option at
\* the cap changes neither list and does not call onChange.
C14_SelectionCap ==
    /\ [](Len(selectedOptions) <= maxSelections)
    /\ [][AddAtCap => /\ selectedOptions' = selectedOptions
                      /\ sidebarState' = sidebarState
                      /\ ~lastEvent'.onChange]_vars

\* A fourth option has just been refused by a MultiSelect holding three.
C14_Witness ==
    /\ maxSelections = DefaultMaxSelections
    /\ Len(selectedOptions) = maxSelections
    /\ lastEvent.op = "handleSelectChange"
    /\ lastEvent.had = maxSelections
    /\ ~Includes(selectedOptions, lastEvent.value)
    /\ ~lastEvent.onChange

\* The rows the store holds for a (title, snapshot date).
StoredOf(u) == {x \in metricsStore : x.title = u[1] /\ x.date = u[2]}

\* C15: however often a (title, snapshot date) is ingested, the store holds
\* for it exactly the rows and values of one ingestion, and a repeated
\* ingestion leaves the store as it was.
C15_ReingestSameStore ==
    /\ [](\A u \in Units : StoredOf(u) = IF runs[u] > 0 THEN RecordsOf(u) ELSE {})
    /\ [][\A u \in Units : (runs[u] >= 1 /\ runs'[u] > runs[u]) =>
              metricsStore' = metricsStore]_vars

\* Both snapshot dates of the title ingested twice, with non-zero values.
C15_Witness ==
    /\ \A u \in Units : runs[u] = 2 /\ Len(corpus[u]) >= 1
    /\ \E x \in metricsStore : x.value > 0
    /\ Cardinality(metricsStore) >= 3

\* C16: the registry is the source list sorted by name, and no step of any
\* request changes its contents or its order.
C16_RegistryReadOnly ==
    /\ [](/\ Len(agencies) = Len(agenciesData)
          /\ \A k \in 1..Len(agenciesData) : \E j \in 1..Len(agencies) : agencies[j] = agenciesData[k]
          /\ \A j \in 1..Len(agencies) : \A l \in 1..Len(agencies) :
                j < l => NameRank(agencies[j].name) <= NameRank(agencies[l].name))
    /\ [][agencies' = agencies]_vars

\* A request over an agency with a reference without a chapter has been
\* answered from store calls, and the registry is not in source order.
C16_Witness ==
    /\ Finished /\ queryBy = "agency"
    /\ \E k \in Items : RefsOf(selectedItems[k]) # RefsWithChapter(selectedItems[k])
                        /\ CallsOf(k) # {}
    /\ agencies # agenciesData
    /\ agencies = SortedAgencies

\* The store calls a request can need: one per selected title, one per
\* reference of a selected agency.
MostCalls ==
    IF queryBy = "agency"
    THEN LET refs == {<< k, ref >> : k \in Items, ref \in 1..Len(agenciesData)} IN
         Cardinality({kr \in refs : FindAgency(agencies, selectedItems[kr[1]]) # 0
                                    /\ kr[2] <= Len(agencies[FindAgency(agencies, selectedItems[kr[1]])].cfr_references)})
    ELSE Len(selectedItems)

\* C17: a started request is eventually answered, after no more store calls
\* than its groups have references or titles, provided every store call is
\* answered.
C17_Terminates ==
    /\ [](Len(storeLog) <= MostCalls)
    /\ (pc \notin {"idle", "done"}) ~> (pc = "done" /\ response # NoResponse)

\* A request that needed three store calls and their delays has returned.
C17_Witness ==
    /\ Finished
    /\ Len(storeLog) = 3
    /\ \A c \in 1..Len(storeLog) : storeLog[c].answered /\ storeLog[c].waited > 0

\* The calls of group k that returned a row for date d.
CallsWithData(k, d) == {c \in CallsOf(k) : HasData(c, d)}

\* C18: at a date for which only some of an agency's references returned a
\* row, the request still succeeds with a row holding a number for the
\* agency: the sum, or for readability the mean, of the totals of just the
\* references that returned one.
C18_PartialDate ==
    (Finished /\ queryBy = "agency") =>
        \A k \in Items : \A d \in Dates :
            (CallsWithData(k, d) # {} /\ CallsWithData(k, d) # CallsOf(k)) =>
                /\ RowsAt(d) # {}
                /\ \A j \in RowsAt(d) :
                      /\ IsNumber(Cell(j, k))
                      /\ Cell(j, k) =
                            IF selectedMetric = "readability_score"
                            THEN Div(ReturnedTotal(k, d, Len(storeLog)),
                                     Cardinality(CallsWithData(k, d)))
                            ELSE ReturnedTotal(k, d, Len(storeLog))

\* One reference has data at both dates, the other only at the later one:
\* the agency's value jumps from the total of one to that of both.
C18_Witness ==
    /\ Finished /\ queryBy = "agency" /\ selectedMetric = "readability_score"
    /\ \E k \in Items :
          /\ Cardinality(CallsWithData(k, 2018)) = 1
          /\ Cardinality(CallsWithData(k, 2019)) = 2
          /\ \A c \in CallsWithData(k, 2018) : storeLog[c].at[2018].total_metric = Num(1)
          /\ \E j \in RowsAt(2018) : Cell(j, k) = Num(1)
          /\ \E j \in RowsAt(2019) : Cell(j, k) # Num(1)

\* C19: a step that changes the page's queryBy leaves selectedAgencies and
\* selectedTitles empty and selectedMetric as it was.
C19_SwitchResetsSelections ==
    [][sidebarState'.queryBy # sidebarState.queryBy =>
          /\ sidebarState'.selectedAgencies = << >>
          /\ sidebarState'.selectedTitles = << >>
          /\ sidebarState'.selectedMetric = sidebarState.selectedMetric]_vars

\* The query type has just been switched to titles with agencies selected
\* and a metric chosen.
C19_Witness ==
    /\ lastEvent.op = "onQueryByChange"
    /\ lastEvent.had > 0
    /\ sidebarState.queryBy = "cfr-title"
    /\ sidebarState.selectedMetric = "word_count"
    /\ sidebarState.selectedAgencies = << >>
    /\ sidebarState.selectedTitles = << >>

\* The store calls supabaseHandler issues for the groups from the k-th on:
\* per agency one for each reference with a chapter, in the registry's
\* order; per title one.
RECURSIVE HandlerCalls(_)
HandlerCalls(k) ==
    IF k > Len(selectedItems) THEN << >>
    ELSE LET refs == IF FindAgency(agencies, selectedItems[k]) = 0 THEN << >>
                     ELSE FilterRefs(agencies[FindAgency(agencies, selectedItems[k])].cfr_references)
         IN (IF queryBy = "agency"
             THEN [j \in 1..Len(refs) |->
                      << k, "get_metric_total_for_pairs", ToString(refs[j].title),
                         refs[j].chapter, selectedMetric >>]
             ELSE IF queryBy = "cfr-title"
             THEN << << k, "get_metric_total_for_title", selectedItems[k], NoChapter,
                        selectedMetric >> >>
             ELSE << >>)
            \o HandlerCalls(k + 1)

\* The rows supabaseHandler returns from the results of the store calls.
HandlerRows ==
    IF queryBy = "agency" THEN MergeAgencies(selectedItems, agencyResults)
    ELSE IF queryBy = "cfr-title" THEN MergeTitles(selectedItems, titleResults)
    ELSE << >>

C21_OneRequestInFlight ==
    /\ Len(pending) <= 1
    /\ (pending # << >>) => (isLoading /\ Disabled)
    /\ \A k \in 1..Len(pending) : pending[k].id = started /\ pending[k].id > shown
    /\ (pending = << >> /\ lastSettled.outcome = "ok") => shown = started

\* A second request has resolved and the chart shows its table.
C21_Witness ==
    /\ started = 2
    /\ pending = << >>
    /\ lastSettled.outcome = "ok"
    /\ shown = 2
    /\ chartState.data # << >>

\* C22: the chart's labels describe the data it displays: whenever the chart
\* has data, the metricName and queryBy passed to Chart are the metric and
\* the query type of the request that produced chartState.data, which
\* fetchData stored with the data.
C22_LabelsDescribeData ==
    (ChartProps.data # << >>) =>
        /\ ChartProps.metricName = chartState.metricName
        /\ ChartProps.queryBy = chartState.queryBy

\* C23: after a failed request, and until the next one starts, the page has
\* an error message, isLoading is false and the chart's data is what it was
\* before the request settled.
C23_FailureKeepsChart ==
    (lastSettled.outcome \in Failures /\ lastSettled.id = started /\ pending = << >>) =>
        /\ error # NoError
        /\ ~isLoading
        /\ chartState.data = lastSettled.before

\* C24: a page request that set isLoading clears it again, whether the
\* handler resolves or rejects, and fetchData called without a queryBy or
\* without a metric leaves isLoading false and starts nothing.
C24_LoadingClears ==
    /\ isLoading ~> ~isLoading
    /\ []((lastEvent.op = "handleVisualize"
           /\ (sidebarState.queryBy = "" \/ sidebarState.selectedMetric = ""))
          => (~isLoading /\ started = 0 /\ pending = << >>))
    /\ [][isLoading' /\ ~isLoading => started' = started + 1]_vars

\* The handler rejected and the page is no longer loading.
C24_Witness ==
    /\ lastSettled.outcome = "threw"
    /\ lastSettled.id = started
    /\ error = ErrorMessage
    /\ ~isLoading

\* The parent's list for the active query type, as fetchData reads it.
ActiveList ==
    IF sidebarState.queryBy = "cfr-title" THEN sidebarState.selectedTitles
    ELSE sidebarState.selectedAgencies

\* C25: the page's list for the active query type equals the MultiSelect's
\* selectedOptions in every state, and a request that starts is sent that list.
C25_SelectionMirrors ==
    /\ [](ActiveList = selectedOptions)
    /\ [][started' = started + 1 =>
            /\ Len(pending') = Len(pending) + 1
            /\ pending'[Len(pending')].items = selectedOptions
            /\ pending'[Len(pending')].queryBy = sidebarState.queryBy]_vars

\* After a switch to titles and a pick, a request is pending with the
\* MultiSelect's list.
C25_Witness ==
    /\ pending # << >>
    /\ pending[1].queryBy = "cfr-title"
    /\ pending[1].items = selectedOptions
    /\ selectedOptions # << >>
    /\ sidebarState.selectedTitles = selectedOptions

====
